---- MODULE Spec2Model ----
(***************************************************************************)
(* A model of RouteOptimizer (src/route_planner.py): the geocode cache and *)
(* resolver, the route request builder, the route response processor and   *)
(* the map link generator.                                                 *)
(*                                                                         *)
(* Python strings that the code takes apart or rebuilds (addresses, URLs,  *)
(* durations) are sequences of one-character strings.  An optional dict    *)
(* key is a sequence of length 0 (absent) or 1 (present).                  *)
(***************************************************************************)
EXTENDS Integers, Sequences, FiniteSets, TLC

(***************************************************************************)
(* Bounds of the model.                                                    *)
(***************************************************************************)
\* longest destination list handed to optimize_route
MaxDests == 2
\* longest optimized destination list handed to the map link generator
MaxUrlDests == 12

(***************************************************************************)
(* Generic helpers: optional values, Python list indexing, strings.        *)
(***************************************************************************)
None == << >>
Some(v) == << v >>
\* dict.get(key, default)
Get(m, default) == IF m = None THEN default ELSE m[1]

Range(s) == { s[i] : i \in 1..Len(s) }

\* all sequences over S of length 0..n
SeqsUpTo(S, n) == UNION { [1..k -> S] : k \in 0..n }

Min(a, b) == IF a < b THEN a ELSE b

\* the empty dict {} that geocoded.get(address, {}) falls back to
EmptyDict == [k \in {} |-> k]

Digits == <<"0", "1", "2", "3", "4", "5", "6", "7", "8", "9">>

IsDigit(c) == \E d \in 1..10 : Digits[d] = c

DigitVal(c) == (CHOOSE d \in 1..10 : Digits[d] = c) - 1

\* str(n) for a natural number n
RECURSIVE NatStr(_)
NatStr(n) == IF n < 10 THEN << Digits[n + 1] >>
             ELSE NatStr(n \div 10) \o << Digits[(n % 10) + 1] >>

\* str.replace(' ', '+')
ReplaceSpaces(s) == [i \in 1..Len(s) |-> IF s[i] = " " THEN "+" ELSE s[i]]

\* str.rstrip('/'): every trailing '/' goes, not only one
RECURSIVE RStripSlash(_)
RStripSlash(s) == IF s # << >> /\ s[Len(s)] = "/"
                  THEN RStripSlash(SubSeq(s, 1, Len(s) - 1))
                  ELSE s

\* str.split('@')[0]
BeforeAt(s) ==
    IF \A i \in 1..Len(s) : s[i] # "@" THEN s
    ELSE LET p == CHOOSE i \in 1..Len(s) :
                      s[i] = "@" /\ \A j \in 1..(i - 1) : s[j] # "@"
         IN  SubSeq(s, 1, p - 1)

\* int(s) succeeds on a non-empty run of decimal digits
IsIntStr(s) == s # << >> /\ \A i \in 1..Len(s) : IsDigit(s[i])

RECURSIVE ParseNat(_)
ParseNat(s) == IF s = << >> THEN 0
               ELSE 10 * ParseNat(SubSeq(s, 1, Len(s) - 1)) + DigitVal(s[Len(s)])

\* list[idx] of Python: a negative idx counts from the end
InIndexRange(list, idx) == -Len(list) <= idx /\ idx < Len(list)

PyIndex(list, idx) == IF idx >= 0 THEN list[idx + 1] ELSE list[Len(list) + idx + 1]

(***************************************************************************)
(* Addresses and the answers of the two external services.                 *)
(***************************************************************************)
AddrA == << "A" >>
AddrB == << "B", " ", "1" >>
AddrC == << "C", "/", "2" >>

\* the address strings callers pass in
Addresses == { AddrA, AddrB, AddrC }

\* candidates the geocoding service may list for an address
Cand1 == [lat |-> 1, lng |-> 2, place_id |-> "p1", formatted_address |-> "f1"]
Cand2 == [lat |-> 3, lng |-> 4, place_id |-> "p2", formatted_address |-> "f2"]

\* gmaps.geocode(address): a list of candidates, possibly empty
GeocodeAnswers == { << >>, << Cand1 >>, << Cand2, Cand1 >> }

(***************************************************************************)
(* RouteOptimizer._generate_map_url                                        *)
(***************************************************************************)
MaxSingleUrlDests == 9

UrlBase == << "h", "t", "t", "p", "s", ":", "/", "/", "w", "w", "w", ".",
              "g", "o", "o", "g", "l", "e", ".", "c", "o", "m", "/",
              "m", "a", "p", "s", "/", "d", "i", "r", "/" >>

\* one stop of the URL followed by its '/': "lat,lng/" when the address has
\* coordinates, else the address with spaces turned into '+'
UrlStop(geocoded, address) ==
    IF /\ address \in DOMAIN geocoded
       /\ "lat" \in DOMAIN geocoded[address]
       /\ "lng" \in DOMAIN geocoded[address]
    THEN NatStr(geocoded[address].lat) \o << "," >>
            \o NatStr(geocoded[address].lng) \o << "/" >>
    ELSE ReplaceSpaces(address) \o << "/" >>

RECURSIVE UrlStops(_, _)
UrlStops(geocoded, dests) ==
    IF dests = << >> THEN << >>
    ELSE UrlStop(geocoded, Head(dests)) \o UrlStops(geocoded, Tail(dests))

GenerateMapUrl(geocoded, origin, optimized_destinations) ==
    LET url == UrlBase \o UrlStop(geocoded, origin)
                       \o UrlStops(geocoded, optimized_destinations)
                       \o UrlStop(geocoded, origin)
    IN  IF Len(optimized_destinations) <= MaxSingleUrlDests
        THEN RStripSlash(url)
        ELSE BeforeAt(RStripSlash(url))

(***************************************************************************)
(* RouteOptimizer._process_route                                           *)
(***************************************************************************)
EndsWithS(str) == str # << >> /\ str[Len(str)] = "s"

\* the text in front of the last character: duration_str[:-1]
DropLast(str) == SubSeq(str, 1, Len(str) - 1)

\* int(duration_str[:-1]) raises ValueError
DurationRaises(duration) ==
    /\ duration # None
    /\ EndsWithS(duration[1])
    /\ ~IsIntStr(DropLast(duration[1]))

\* seconds of a "<n>s" duration; 0 when the key is absent or has no 's' suffix
DurationSeconds(duration) ==
    IF duration # None /\ EndsWithS(duration[1])
    THEN ParseNat(DropLast(duration[1]))
    ELSE 0

\* meters / 1000 as kilometres and thousandths of a kilometre
Km(meters) == [km |-> meters \div 1000, thousandths |-> meters % 1000]

\* round(meters / 1000, 2) in hundredths of a kilometre (no ties among the
\* distances of the model)
RoundKm2(meters) == [hundredths |-> (meters + 5) \div 10]

\* the loop over optimized_order: an index below len(destinations) selects
\* destinations[idx], any other index is skipped
RECURSIVE SelectByOrder(_, _)
SelectByOrder(order, destinations) ==
    IF order = << >> THEN << >>
    ELSE IF Head(order) < Len(destinations)
         THEN << PyIndex(destinations, Head(order)) >>
                 \o SelectByOrder(Tail(order), destinations)
         ELSE SelectByOrder(Tail(order), destinations)

\* destinations[idx] raises IndexError
OrderRaises(order, destinations) ==
    /\ order # << >>
    /\ Len(destinations) > 0
    /\ \E k \in 1..Len(order) :
          order[k] < Len(destinations) /\ ~InIndexRange(destinations, order[k])

OptimizedDestinations(order, destinations) ==
    IF order # << >> /\ Len(destinations) > 0
    THEN SelectByOrder(order, destinations)
    ELSE destinations

Waypoint(geocoded, start_address, end_address, leg) ==
    [start_location |-> start_address,
     end_location   |-> end_address,
     geocoded_start |-> IF start_address \in DOMAIN geocoded
                        THEN geocoded[start_address] ELSE EmptyDict,
     geocoded_end   |-> IF end_address \in DOMAIN geocoded
                        THEN geocoded[end_address] ELSE EmptyDict,
     distance_km    |-> Km(Get(leg.distanceMeters, 0)),
     duration_mins  |-> DurationSeconds(leg.duration) \div 60]

\* the first leg: origin to the first optimized destination
FirstWaypoint(geocoded, origin, od, legs) ==
    Waypoint(geocoded, origin, IF od # << >> THEN od[1] ELSE origin, legs[1])

\* the loop reading legs[i] where the code reads legs[i+1]
RECURSIVE IntermediateWaypointsLegBehind(_, _, _, _, _)
IntermediateWaypointsLegBehind(geocoded, origin, od, legs, i) ==
    IF i >= Len(od) THEN << >>
    ELSE IF i + 1 < Len(legs)
         THEN << Waypoint(geocoded, od[i + 1],
                          IF i + 1 < Len(od) THEN od[i + 2] ELSE origin,
                          legs[i + 1]) >>
                 \o IntermediateWaypointsLegBehind(geocoded, origin, od, legs, i + 1)
         ELSE IntermediateWaypointsLegBehind(geocoded, origin, od, legs, i + 1)

\* the loop "for i in range(len(optimized_destinations))" from i on; i is the
\* 0-based index of the code, legs[i+1] of the code is legs[i + 2] here
RECURSIVE IntermediateWaypoints(_, _, _, _, _)
IntermediateWaypoints(geocoded, origin, od, legs, i) ==
    IF i >= Len(od) THEN << >>
    ELSE IF i + 1 < Len(legs)
         THEN << Waypoint(geocoded, od[i + 1],
                          IF i + 1 < Len(od) THEN od[i + 2] ELSE origin,
                          legs[i + 2]) >>
                 \o IntermediateWaypoints(geocoded, origin, od, legs, i + 1)
         ELSE IntermediateWaypoints(geocoded, origin, od, legs, i + 1)

\* the loop stopping one short, "range(len(optimized_destinations) - 1)": the
\* leg back to the origin is never built
WaypointsWithoutReturnLeg(geocoded, origin, od, legs) ==
    IF legs # << >>
    THEN LET rest == IntermediateWaypoints(geocoded, origin, od, legs, 0)
         IN  << FirstWaypoint(geocoded, origin, od, legs) >>
                \o SubSeq(rest, 1, Min(Len(rest), Len(od) - 1))
    ELSE << >>

Waypoints(geocoded, origin, od, legs) ==
    IF legs # << >>
    THEN << FirstWaypoint(geocoded, origin, od, legs) >>
            \o IntermediateWaypoints(geocoded, origin, od, legs, 0)
    ELSE << >>

\* the legs whose duration the code parses
LegsRead(od, legs) == { j \in 1..Len(legs) : j <= Len(od) + 1 }

\* _process_route raises instead of returning
ProcessRouteRaises(route, destinations) ==
    LET order == Get(route.optimizedIntermediateWaypointIndex, << >>)
        legs  == Get(route.legs, << >>)
    IN  \/ DurationRaises(route.duration)
        \/ OrderRaises(order, destinations)
        \/ /\ ~OrderRaises(order, destinations)
           /\ \E j \in LegsRead(OptimizedDestinations(order, destinations), legs) :
                 DurationRaises(legs[j].duration)

ProcessRoute(route, geocoded, origin, destinations) ==
    LET optimized_order == Get(route.optimizedIntermediateWaypointIndex, << >>)
        polyline == Get(Get(route.polyline, [encodedPolyline |-> None]).encodedPolyline, "")
        legs == Get(route.legs, << >>)
        total_distance_meters == Get(route.distanceMeters, 0)
        total_duration_seconds == DurationSeconds(route.duration)
        optimized_destinations == OptimizedDestinations(optimized_order, destinations)
    IN  [origin                   |-> origin,
         destinations             |-> destinations,
         optimized_waypoint_order |-> optimized_order,
         optimized_destinations   |-> optimized_destinations,
         total_distance_km        |-> RoundKm2(total_distance_meters),
         total_duration_mins      |-> total_duration_seconds \div 60,
         waypoints                |-> Waypoints(geocoded, origin, optimized_destinations, legs),
         polyline                 |-> polyline,
         google_maps_url          |-> GenerateMapUrl(geocoded, origin, optimized_destinations)]

(***************************************************************************)
(* The state of one RouteOptimizer instance and of the call in progress.   *)
(***************************************************************************)
VARIABLES
    geocode_cache,  \* self.geocode_cache: address -> GeocodeResult
    pc,             \* "idle", "geocoding" (inside geocode_addresses) or "returned"
    call,           \* the public method running: "geocode_addresses", "optimize_route"
    addresses,      \* the list geocode_addresses iterates over
    idx,            \* how many of them the loop has handled
    results,        \* the dict geocode_addresses builds and returns
    origin,         \* arguments of optimize_route
    destinations,
    response,       \* what requests.post returned, None before the call
    outcome,        \* what the call returned or raised to its caller
    netlog,         \* the current call's cache hits, requests and delays, in order
    okcalls,        \* per address: answers with a candidate over the instance's life
    stored          \* per address: the GeocodeResult stored first

vars == << geocode_cache, pc, call, addresses, idx, results, origin,
           destinations, response, outcome, netlog, okcalls, stored >>

NoOutcome == [kind |-> "none"]

\* the GeocodeResult built from the first candidate
GeocodeResultOf(candidate) ==
    [lat |-> candidate.lat, lng |-> candidate.lng,
     place_id |-> candidate.place_id,
     formatted_address |-> candidate.formatted_address]

\* d[k] = v on a dict
Put(d, k, v) == [a \in DOMAIN d \cup {k} |-> IF a = k THEN v ELSE d[a]]

\* RouteOptimizer.__init__
Init ==
    /\ geocode_cache = EmptyDict
    /\ pc = "idle"
    /\ call = "none"
    /\ addresses = << >>
    /\ idx = 0
    /\ results = EmptyDict
    /\ origin = << >>
    /\ destinations = << >>
    /\ response = None
    /\ outcome = NoOutcome
    /\ netlog = << >>
    /\ okcalls = [a \in Addresses |-> 0]
    /\ stored = EmptyDict

(***************************************************************************)
(* RouteOptimizer.geocode_addresses                                        *)
(***************************************************************************)
\* a caller enters geocode_addresses(list)
CallGeocodeAddresses ==
    /\ pc = "idle"
    /\ \E list \in SeqsUpTo(Addresses, MaxDests + 1) :
          /\ addresses' = list
          /\ call' = "geocode_addresses"
    /\ pc' = "geocoding"
    /\ idx' = 0
    /\ results' = EmptyDict
    /\ UNCHANGED << geocode_cache, origin, destinations, response, outcome,
                    netlog, okcalls, stored >>

\* the address of the loop's current iteration
Current == addresses[idx + 1]

InLoop == pc = "geocoding" /\ idx < Len(addresses)

\* the cache check left out: a cached address is geocoded again
CacheIgnored ==
    /\ InLoop
    /\ Current \in DOMAIN geocode_cache
    /\ \E answer \in GeocodeAnswers \ { << >> } :
          LET result == GeocodeResultOf(answer[1])
          IN  /\ geocode_cache' = Put(geocode_cache, Current, result)
              /\ results' = Put(results, Current, result)
    /\ netlog' = netlog \o << [ev |-> "geocode", address |-> Current, answer |-> "candidates"],
                              [ev |-> "sleep"] >>
    /\ okcalls' = [okcalls EXCEPT ![Current] = Min(@ + 1, 2)]
    /\ idx' = idx + 1
    /\ UNCHANGED << pc, call, addresses, origin, destinations, response, outcome, stored >>

\* "if address in self.geocode_cache": the cached value, no network call
CacheHit ==
    /\ InLoop
    /\ Current \in DOMAIN geocode_cache
    /\ results' = Put(results, Current, geocode_cache[Current])
    /\ netlog' = Append(netlog, [ev |-> "cached", address |-> Current])
    /\ idx' = idx + 1
    /\ UNCHANGED << geocode_cache, pc, call, addresses, origin, destinations,
                    response, outcome, okcalls, stored >>

\* the result goes into results but not into the cache
GeocodeResolvedNotCached ==
    /\ InLoop
    /\ Current \notin DOMAIN geocode_cache
    /\ \E answer \in GeocodeAnswers \ { << >> } :
          results' = Put(results, Current, GeocodeResultOf(answer[1]))
    /\ netlog' = netlog \o << [ev |-> "geocode", address |-> Current, answer |-> "candidates"],
                              [ev |-> "sleep"] >>
    /\ okcalls' = [okcalls EXCEPT ![Current] = Min(@ + 1, 2)]
    /\ idx' = idx + 1
    /\ UNCHANGED << geocode_cache, pc, call, addresses, origin, destinations,
                    response, outcome, stored >>

\* a miss whose call lists at least one candidate: cache, results, sleep
GeocodeResolved ==
    /\ InLoop
    /\ Current \notin DOMAIN geocode_cache
    /\ \E answer \in GeocodeAnswers \ { << >> } :
          LET result == GeocodeResultOf(answer[1])
          IN  /\ geocode_cache' = Put(geocode_cache, Current, result)
              /\ results' = Put(results, Current, result)
              /\ stored' = IF Current \in DOMAIN stored THEN stored
                           ELSE Put(stored, Current, result)
    /\ netlog' = netlog \o << [ev |-> "geocode", address |-> Current, answer |-> "candidates"],
                              [ev |-> "sleep"] >>
    /\ okcalls' = [okcalls EXCEPT ![Current] = @ + 1]
    /\ idx' = idx + 1
    /\ UNCHANGED << pc, call, addresses, origin, destinations, response, outcome >>

\* the miss remembered too: an empty entry is cached for the address
GeocodeNoResultsCached ==
    /\ InLoop
    /\ Current \notin DOMAIN geocode_cache
    /\ geocode_cache' = Put(geocode_cache, Current,
                            [lat |-> 0, lng |-> 0, place_id |-> "", formatted_address |-> ""])
    /\ netlog' = Append(netlog, [ev |-> "geocode", address |-> Current, answer |-> "empty"])
    /\ idx' = idx + 1
    /\ UNCHANGED << pc, call, addresses, results, origin,
                    destinations, response, outcome, okcalls, stored >>

\* a miss whose call lists no candidate: warning, continue
GeocodeNoResults ==
    /\ InLoop
    /\ Current \notin DOMAIN geocode_cache
    /\ netlog' = Append(netlog, [ev |-> "geocode", address |-> Current, answer |-> "empty"])
    /\ idx' = idx + 1
    /\ UNCHANGED << geocode_cache, pc, call, addresses, results, origin,
                    destinations, response, outcome, okcalls, stored >>

\* the try placed around the loop instead of inside it: the first exception
\* ends the loop
GeocodeRaisesEndsLoop ==
    /\ InLoop
    /\ Current \notin DOMAIN geocode_cache
    /\ netlog' = Append(netlog, [ev |-> "geocode", address |-> Current, answer |-> "raised"])
    /\ idx' = Len(addresses)
    /\ UNCHANGED << geocode_cache, pc, call, addresses, results, origin,
                    destinations, response, outcome, okcalls, stored >>

\* a miss whose call raises: the except clause logs and the loop goes on
GeocodeRaises ==
    /\ InLoop
    /\ Current \notin DOMAIN geocode_cache
    /\ netlog' = Append(netlog, [ev |-> "geocode", address |-> Current, answer |-> "raised"])
    /\ idx' = idx + 1
    /\ UNCHANGED << geocode_cache, pc, call, addresses, results, origin,
                    destinations, response, outcome, okcalls, stored >>

\* "return results" to the caller of geocode_addresses
ReturnGeocoded ==
    /\ pc = "geocoding"
    /\ call = "geocode_addresses"
    /\ idx = Len(addresses)
    /\ outcome' = [kind |-> "geocoded", value |-> results]
    /\ pc' = "returned"
    /\ UNCHANGED << geocode_cache, call, addresses, idx, results, origin,
                    destinations, response, netlog, okcalls, stored >>

(***************************************************************************)
(* RouteOptimizer.optimize_route                                           *)
(***************************************************************************)
\* a caller enters optimize_route(origin, destinations); the method starts by
\* geocoding [origin] + destinations
CallOptimizeRoute ==
    /\ pc = "idle"
    /\ \E o \in Addresses, d \in SeqsUpTo(Addresses, MaxDests) :
          /\ origin' = o
          /\ destinations' = d
          /\ addresses' = << o >> \o d
    /\ call' = "optimize_route"
    /\ pc' = "geocoding"
    /\ idx' = 0
    /\ results' = EmptyDict
    /\ UNCHANGED << geocode_cache, response, outcome, netlog, okcalls, stored >>

\* geocode_addresses has returned into optimize_route
Geocoded == pc = "geocoding" /\ call = "optimize_route" /\ idx = Len(addresses)

LatLng(geocoded, address) ==
    [location |-> [latLng |-> [latitude  |-> geocoded[address].lat,
                               longitude |-> geocoded[address].lng]]]

\* the destinations whose coordinates go into the request, in input order
RECURSIVE IntermediateAddresses(_, _)
IntermediateAddresses(dests, geocoded) ==
    IF dests = << >> THEN << >>
    ELSE IF Head(dests) \in DOMAIN geocoded
         THEN << Head(dests) >> \o IntermediateAddresses(Tail(dests), geocoded)
         ELSE IntermediateAddresses(Tail(dests), geocoded)

RouteRequest(geocoded, o, dests) ==
    LET sent == IntermediateAddresses(dests, geocoded)
    IN  [origin        |-> LatLng(geocoded, o),
         destination   |-> LatLng(geocoded, o),
         intermediates |-> [i \in 1..Len(sent) |-> LatLng(geocoded, sent[i])],
         travelMode    |-> "DRIVE",
         routingPreference    |-> "TRAFFIC_AWARE",
         optimizeWaypointOrder |-> TRUE,
         computeAlternativeRoutes |-> FALSE]

\* the request as it goes out: what was sent and for which addresses
RouteEvent == [ev |-> "route",
               request |-> RouteRequest(results, origin, destinations),
               sent |-> IntermediateAddresses(destinations, results)]

\* the origin check placed after the request instead of before it
OriginCheckedAfterPost ==
    /\ Geocoded
    /\ origin \notin DOMAIN results
    /\ netlog' = Append(netlog, [ev |-> "route", request |-> EmptyDict,
                                 sent |-> IntermediateAddresses(destinations, results)])
    /\ outcome' = [kind |-> "error", error |-> "Failed to geocode origin address"]
    /\ pc' = "returned"
    /\ UNCHANGED << geocode_cache, call, addresses, idx, results, origin,
                    destinations, response, okcalls, stored >>

\* "if origin not in geocoded: raise ValueError"
OriginUnresolved ==
    /\ Geocoded
    /\ origin \notin DOMAIN results
    /\ outcome' = [kind |-> "error", error |-> "Failed to geocode origin address"]
    /\ pc' = "returned"
    /\ UNCHANGED << geocode_cache, call, addresses, idx, results, origin,
                    destinations, response, netlog, okcalls, stored >>

\* the legs of a route of n legs, leg j with a distance and duration of its own
ServiceLeg(j) == [distanceMeters |-> Some(1000 * j + 234),
                  duration |-> Some(NatStr(60 * j + 30) \o << "s" >>)]

ServiceLegs(n) == [j \in 1..n |-> ServiceLeg(j)]

\* the visiting orders over k intermediates: the permutations of 0..k-1
VisitingOrders(k) ==
    { p \in [1..k -> 0..(k - 1)] : \A i, j \in 1..k : p[i] = p[j] => i = j }

\* the routes the service computes for a request of k intermediates: the order
\* field left out, empty or a visiting order, and the k + 1 legs of the round
\* trip or none at all
ServiceRoutes(k) ==
    { [optimizedIntermediateWaypointIndex |-> order,
       polyline       |-> Some([encodedPolyline |-> Some("poly")]),
       legs           |-> Some(ServiceLegs(n)),
       distanceMeters |-> Some(1000 * n + 234),
       duration       |-> Some(NatStr(60 * n + 30) \o << "s" >>)] :
      order \in { None, Some(<< >>) } \cup { Some(p) : p \in VisitingOrders(k) },
      n \in { 0, k + 1 } }

\* requests.post raises (no connection, timeout)
RouteTransportError ==
    /\ Geocoded
    /\ origin \in DOMAIN results
    /\ netlog' = Append(netlog, RouteEvent)
    /\ outcome' = [kind |-> "error", error |-> "requests.post raised"]
    /\ pc' = "returned"
    /\ UNCHANGED << geocode_cache, call, addresses, idx, results, origin,
                    destinations, response, okcalls, stored >>

\* what a response with an error status may carry in 'routes': nothing, or a
\* route all the same (the one in input order with all its legs)
ErrorBodies(k) ==
    { None } \cup
    { Some(<< r >>) : r \in { x \in ServiceRoutes(k) :
                                /\ x.optimizedIntermediateWaypointIndex = None
                                /\ Len(x.legs[1]) = k + 1 } }

\* the same with the status check left out: the body decides alone
RouteStatusIgnored ==
    /\ Geocoded
    /\ origin \in DOMAIN results
    /\ netlog' = Append(netlog, RouteEvent)
    /\ \E routes \in ErrorBodies(Len(IntermediateAddresses(destinations, results))) :
          /\ response' = Some([status_code |-> 500, routes |-> routes])
          /\ outcome' = IF routes = None
                        THEN [kind |-> "error", error |-> "No routes returned from Routes API"]
                        ELSE [kind |-> "result",
                              value |-> ProcessRoute(routes[1][1], results, origin, destinations)]
    /\ pc' = "returned"
    /\ UNCHANGED << geocode_cache, call, addresses, idx, results, origin,
                    destinations, okcalls, stored >>

\* "if response.status_code != 200: raise ValueError", whatever the body holds:
\* nothing, or a route
RouteServiceError ==
    /\ Geocoded
    /\ origin \in DOMAIN results
    /\ netlog' = Append(netlog, RouteEvent)
    /\ \E routes \in ErrorBodies(Len(IntermediateAddresses(destinations, results))) :
          response' = Some([status_code |-> 500, routes |-> routes])
    /\ outcome' = [kind |-> "error", error |-> "Routes API error"]
    /\ pc' = "returned"
    /\ UNCHANGED << geocode_cache, call, addresses, idx, results, origin,
                    destinations, okcalls, stored >>

\* status 200 and a body that is empty, has no 'routes' key or an empty list
NoRoutesReturned ==
    /\ Geocoded
    /\ origin \in DOMAIN results
    /\ netlog' = Append(netlog, RouteEvent)
    /\ \E routes \in { None, Some(<< >>) } :
          response' = Some([status_code |-> 200, routes |-> routes])
    /\ outcome' = [kind |-> "error", error |-> "No routes returned from Routes API"]
    /\ pc' = "returned"
    /\ UNCHANGED << geocode_cache, call, addresses, idx, results, origin,
                    destinations, okcalls, stored >>

\* the request sent again after the first answer, as a retry would
RouteRequestedTwice ==
    /\ Geocoded
    /\ origin \in DOMAIN results
    /\ netlog' = netlog \o << RouteEvent, RouteEvent >>
    /\ \E route \in ServiceRoutes(Len(IntermediateAddresses(destinations, results))) :
          /\ response' = Some([status_code |-> 200, routes |-> Some(<< route >>)])
          /\ outcome' = [kind |-> "result",
                         value |-> ProcessRoute(route, results, origin, destinations)]
    /\ pc' = "returned"
    /\ UNCHANGED << geocode_cache, call, addresses, idx, results, origin,
                    destinations, okcalls, stored >>

\* status 200 and a route: _process_route(routes[0], geocoded, origin,
\* destinations) and its result is returned
RouteProcessed ==
    /\ Geocoded
    /\ origin \in DOMAIN results
    /\ netlog' = Append(netlog, RouteEvent)
    /\ \E route \in ServiceRoutes(Len(IntermediateAddresses(destinations, results))) :
          /\ response' = Some([status_code |-> 200, routes |-> Some(<< route >>)])
          /\ outcome' = IF ProcessRouteRaises(route, destinations)
                        THEN [kind |-> "error", error |-> "_process_route raised"]
                        ELSE [kind |-> "result",
                              value |-> ProcessRoute(route, results, origin, destinations)]
    /\ pc' = "returned"
    /\ UNCHANGED << geocode_cache, call, addresses, idx, results, origin,
                    destinations, okcalls, stored >>

\* the caller has the return value or the exception; the instance is idle again
Done ==
    /\ pc = "returned"
    /\ pc' = "idle"
    /\ call' = "none"
    /\ addresses' = << >>
    /\ idx' = 0
    /\ results' = EmptyDict
    /\ origin' = << >>
    /\ destinations' = << >>
    /\ response' = None
    /\ outcome' = NoOutcome
    /\ netlog' = << >>
    /\ UNCHANGED << geocode_cache, okcalls, stored >>

Next ==
    \/ CallGeocodeAddresses
    \/ CacheHit
    \/ GeocodeResolved
    \/ GeocodeNoResults
    \/ GeocodeRaises
    \/ ReturnGeocoded
    \/ CallOptimizeRoute
    \/ OriginUnresolved
    \/ RouteTransportError
    \/ RouteServiceError
    \/ NoRoutesReturned
    \/ RouteProcessed
    \/ Done

Spec == Init /\ [][Next]_vars

(***************************************************************************)
(* _process_route on its own: the inputs are any geocode mapping that      *)
(* holds the origin (optimize_route has checked it), any destination list  *)
(* and any route, well-formed or not; the order entries and the number of  *)
(* legs are whatever the response says.                                    *)
(***************************************************************************)
LegStyles == { "full", "bare", "nosuffix", "fraction" }

\* leg j of a response in one of four styles: distance and "<n>s" duration,
\* no keys at all, a duration without the 's', a fractional "1.5s"
InputLeg(style, j) ==
    IF style = "full" THEN ServiceLeg(j)
    ELSE IF style = "bare" THEN [distanceMeters |-> None, duration |-> None]
    ELSE IF style = "nosuffix"
         THEN [distanceMeters |-> Some(1000 * j + 234),
               duration |-> Some(NatStr(60 * j + 30))]
    ELSE [distanceMeters |-> Some(1000 * j + 234),
          duration |-> Some(<< "1", ".", "5", "s" >>)]

InputLegs == { [j \in 1..n |-> InputLeg(style, j)] :
               style \in LegStyles, n \in 0..(MaxDests + 2) }

\* order entries: in range, too large by one, negative
InputOrders == { None } \cup
               { Some(o) : o \in SeqsUpTo((-2)..MaxDests, MaxDests) }

InputRoutes ==
    { [optimizedIntermediateWaypointIndex |-> order,
       polyline       |-> Some([encodedPolyline |-> Some("poly")]),
       legs           |-> Some(legs),
       distanceMeters |-> Some(1000 * Len(legs) + 234),
       duration       |-> Some(NatStr(60 * Len(legs) + 30) \o << "s" >>)] :
      order \in InputOrders, legs \in InputLegs }

\* geocode mappings that hold the origin: the origin alone, or every address
InputGeocoded(o) ==
    { [a \in D |-> GeocodeResultOf(IF a = o THEN Cand1 ELSE Cand2)] :
      D \in { {o}, Addresses } }

ProcessInit ==
    /\ pc = "processing"
    /\ call = "_process_route"
    /\ origin = AddrA
    /\ destinations \in SeqsUpTo(Addresses, MaxDests)
    /\ results \in InputGeocoded(AddrA)
    /\ geocode_cache = results
    /\ stored = results
    /\ okcalls = [a \in Addresses |-> IF a \in DOMAIN results THEN 1 ELSE 0]
    /\ \E route \in InputRoutes :
          response = Some([status_code |-> 200, routes |-> Some(<< route >>)])
    /\ addresses = << origin >> \o destinations
    /\ idx = Len(addresses)
    /\ outcome = NoOutcome
    /\ netlog = << >>

\* routes_response['routes'][0]
ResponseRoute == response[1].routes[1][1]

\* _process_route returns its result dict
ProcessReturns ==
    /\ pc = "processing"
    /\ ~ProcessRouteRaises(ResponseRoute, destinations)
    /\ outcome' = [kind |-> "result",
                   value |-> ProcessRoute(ResponseRoute, results, origin, destinations)]
    /\ pc' = "returned"
    /\ UNCHANGED << geocode_cache, call, addresses, idx, results, origin,
                    destinations, response, netlog, okcalls, stored >>

\* int() or destinations[idx] raises inside _process_route
ProcessRaises ==
    /\ pc = "processing"
    /\ ProcessRouteRaises(ResponseRoute, destinations)
    /\ outcome' = [kind |-> "error", error |-> "_process_route raised"]
    /\ pc' = "returned"
    /\ UNCHANGED << geocode_cache, call, addresses, idx, results, origin,
                    destinations, response, netlog, okcalls, stored >>

ProcessNext == ProcessReturns \/ ProcessRaises

SpecProcess == ProcessInit /\ [][ProcessNext]_vars

(***************************************************************************)
(* _generate_map_url on its own, for destination lists up to MaxUrlDests   *)
(* long: the lists cycle through the addresses from any first address with *)
(* any stride, the geocode mapping holds the origin alone or every         *)
(* address.  (The code's except clause, which returns "", needs a stop     *)
(* that is no string; the destination batches the over-9 branch computes   *)
(* are never read.)                                                        *)
(***************************************************************************)
AddressList == << AddrA, AddrB, AddrC >>

UrlDestinationLists ==
    { [i \in 1..n |-> AddressList[((first + i * stride) % Len(AddressList)) + 1]] :
      n \in 0..MaxUrlDests, first \in 0..2, stride \in 0..2 }

UrlInit ==
    /\ pc = "generating"
    /\ call = "_generate_map_url"
    /\ origin \in Addresses
    /\ destinations \in UrlDestinationLists
    /\ results \in InputGeocoded(origin)
    /\ geocode_cache = results
    /\ stored = results
    /\ okcalls = [a \in Addresses |-> IF a \in DOMAIN results THEN 1 ELSE 0]
    /\ response = None
    /\ addresses = << >>
    /\ idx = 0
    /\ outcome = NoOutcome
    /\ netlog = << >>

\* "if len(optimized_destinations) <= 9": the single URL
UrlForFewStops ==
    /\ pc = "generating"
    /\ Len(destinations) <= MaxSingleUrlDests
    /\ outcome' = [kind |-> "url", value |-> GenerateMapUrl(results, origin, destinations)]
    /\ pc' = "returned"
    /\ UNCHANGED << geocode_cache, call, addresses, idx, results, origin,
                    destinations, response, netlog, okcalls, stored >>

\* the else branch, "we need to split into batches"
UrlForManyStops ==
    /\ pc = "generating"
    /\ Len(destinations) > MaxSingleUrlDests
    /\ outcome' = [kind |-> "url", value |-> GenerateMapUrl(results, origin, destinations)]
    /\ pc' = "returned"
    /\ UNCHANGED << geocode_cache, call, addresses, idx, results, origin,
                    destinations, response, netlog, okcalls, stored >>

UrlNext == UrlForFewStops \/ UrlForManyStops

SpecUrl == UrlInit /\ [][UrlNext]_vars

(***************************************************************************)
(* The stop table of the app (src/app.py), built from the result of        *)
(* optimize_route: a Start row, one row for each optimized destination, an *)
(* End row.  The Location and Phone columns come from the spreadsheet and  *)
(* are left out.                                                           *)
(***************************************************************************)
\* next((wp for wp in waypoints if wp['end_location'] == address), {})
RECURSIVE MatchingWaypoint(_, _)
MatchingWaypoint(waypoints, address) ==
    IF waypoints = << >> THEN EmptyDict
    ELSE IF Head(waypoints).end_location = address THEN Head(waypoints)
    ELSE MatchingWaypoint(Tail(waypoints), address)

\* waypoint_info.get('distance_km', 0) and .get('duration_mins', 0)
DistanceOf(waypoint_info) ==
    IF "distance_km" \in DOMAIN waypoint_info THEN waypoint_info.distance_km ELSE Km(0)

DurationOf(waypoint_info) ==
    IF "duration_mins" \in DOMAIN waypoint_info THEN waypoint_info.duration_mins ELSE 0

\* f"{distance:.2f} km" (no ties among the distances of the model)
DistanceText(distance) ==
    LET hundredths == (1000 * distance.km + distance.thousandths + 5) \div 10
    IN  NatStr(hundredths \div 100)
           \o << ".", Digits[((hundredths \div 10) % 10) + 1], Digits[(hundredths % 10) + 1] >>
           \o << " ", "k", "m" >>

\* f"{duration} mins"
DurationText(duration) == NatStr(duration) \o << " ", "m", "i", "n", "s" >>

TableRow(stop, address, waypoint_info) ==
    [Stop     |-> stop,
     Address  |-> address,
     Distance |-> DistanceText(DistanceOf(waypoint_info)),
     Duration |-> DurationText(DurationOf(waypoint_info))]

\* the row of a stop taken from the leg at the stop's own position
StopRowByPosition(result, i) ==
    TableRow(NatStr(i), result.optimized_destinations[i],
             IF i <= Len(result.waypoints) THEN result.waypoints[i] ELSE EmptyDict)

\* the row of the i-th optimized destination (i counted from 1, "Stop #" i)
StopRow(result, i) ==
    TableRow(NatStr(i), result.optimized_destinations[i],
             MatchingWaypoint(result.waypoints, result.optimized_destinations[i]))

CustomersInOrder(result) ==
    << [Stop |-> << "S", "t", "a", "r", "t" >>, Address |-> result.origin,
        Distance |-> << "-" >>, Duration |-> << "-" >>] >>
    \o [i \in 1..Len(result.optimized_destinations) |-> StopRow(result, i)]
    \o << TableRow(<< "E", "n", "d" >>, result.origin,
                   IF result.waypoints # << >>
                   THEN result.waypoints[Len(result.waypoints)] ELSE EmptyDict) >>

\* the results the app may be handed: those of _process_route for any order
\* and any number of legs that carry a distance and a duration
AppInit ==
    /\ ProcessInit
    /\ \E n \in 0..(MaxDests + 2) : Get(ResponseRoute.legs, << >>) = ServiceLegs(n)

\* the app builds customers_in_order from the result
ShowStopTable ==
    /\ pc = "returned"
    /\ outcome.kind = "result"
    /\ outcome' = [kind |-> "table", result |-> outcome.value,
                   customers_in_order |-> CustomersInOrder(outcome.value)]
    /\ pc' = "shown"
    /\ UNCHANGED << geocode_cache, call, addresses, idx, results, origin,
                    destinations, response, netlog, okcalls, stored >>

AppNext == ProcessReturns \/ ProcessRaises \/ ShowStopTable

SpecApp == AppInit /\ [][AppNext]_vars

(***************************************************************************)
(* Vocabulary of the properties.                                           *)
(***************************************************************************)
\* optimize_route has returned a result dict
RouteReturned == pc = "returned" /\ call = "optimize_route" /\ outcome.kind = "result"

\* _process_route has returned a result dict (inside optimize_route or alone)
ResultReturned == pc = "returned" /\ outcome.kind = "result"

RouteEvents == { i \in 1..Len(netlog) : netlog[i].ev = "route" }

\* the addresses whose coordinates the route request carried as intermediates
SentIntermediates == netlog[CHOOSE i \in RouteEvents : TRUE].sent

\* the order field the response carried, [] when it had none
ResponseOrder == Get(ResponseRoute.optimizedIntermediateWaypointIndex, << >>)

ResponseLegs == Get(ResponseRoute.legs, << >>)

Count(seq, x) == Cardinality({ i \in 1..Len(seq) : seq[i] = x })

\* the same elements, each as often
SameMultiset(s, t) == \A x \in Range(s) \cup Range(t) : Count(s, x) = Count(t, x)

\* order lists each of 0..k-1 once
IsVisitingOrder(order, k) ==
    /\ Len(order) = k
    /\ \A n \in 0..(k - 1) : Count(order, n) = 1

GeocodeEventsFor(log, a) ==
    { i \in 1..Len(log) : log[i].ev = "geocode" /\ log[i].address = a }

\* C1: whenever optimize_route returns a result and the response's order is a
\* permutation of the indices of the intermediates sent, optimized_destinations
\* holds the same addresses as the intermediates sent, each as often.  (Stated
\* for the responses that list at least one index; an empty order is C3.)
C1_PermutationOfSent ==
    (/\ RouteReturned
     /\ ResponseOrder # << >>
     /\ IsVisitingOrder(ResponseOrder, Len(SentIntermediates)))
        => SameMultiset(outcome.value.optimized_destinations, SentIntermediates)

\* C2: a destination that is not in the geocode mapping of an optimize_route
\* call is not in the optimized_destinations that call returns.
C2_FailedNeverListed ==
    RouteReturned =>
        \A i \in 1..Len(destinations) :
            destinations[i] \notin DOMAIN results
                => destinations[i] \notin Range(outcome.value.optimized_destinations)

\* C3: when the response has no order field or an empty one, optimized_destinations
\* is the sequence of addresses sent as intermediates, in request order.
C3_EmptyOrderKeepsRequestOrder ==
    (RouteReturned /\ ResponseOrder = << >>)
        => outcome.value.optimized_destinations = SentIntermediates

\* C4: while the origin of an optimize_route call is missing from the geocode
\* mapping no route request is in the call's traffic, and when such a call is
\* over it has raised an error.
C4_OriginUnresolvedFails ==
    (call = "optimize_route" /\ origin \notin DOMAIN results)
        => /\ RouteEvents = {}
           /\ pc = "returned" => outcome.kind = "error"

\* an optimize_route call ended with its origin unresolved although one of its
\* destinations was resolved
C4_Witness ==
    /\ pc = "returned"
    /\ call = "optimize_route"
    /\ origin \notin DOMAIN results
    /\ \E i \in 1..Len(destinations) : destinations[i] \in DOMAIN results
    /\ outcome.kind = "error"

\* C5 as stated: no address is sent to the geocoding service more than once.
\* (Stated for the requests of one call, which the lifetime claim includes.)
C5_AtMostOneCallPerAddress ==
    \A a \in Addresses : Cardinality(GeocodeEventsFor(netlog, a)) <= 1

\* C5, amended: over the life of the instance the service answers with a
\* candidate at most once for each address, the address is cached exactly when it
\* has, and within a call no request for an address follows one that was
\* answered with a candidate; requests answered with nothing or an exception are
\* not remembered and may repeat.
C5_AtMostOneResolvingCall ==
    \A a \in Addresses :
        /\ okcalls[a] <= 1
        /\ okcalls[a] = 1 <=> a \in DOMAIN geocode_cache
        /\ \A i \in GeocodeEventsFor(netlog, a) :
              netlog[i].answer = "candidates"
                  => \A j \in GeocodeEventsFor(netlog, a) : j <= i

\* an address was sent to the service twice in one call: once in vain, then
\* resolved
C5_Witness ==
    \E a \in Addresses :
        /\ okcalls[a] = 1
        /\ \E i, j \in GeocodeEventsFor(netlog, a) :
              i < j /\ netlog[i].answer # "candidates" /\ netlog[j].answer = "candidates"

\* the events a step adds to the call's log
NewEvents == IF Len(netlog') >= Len(netlog)
             THEN SubSeq(netlog', Len(netlog) + 1, Len(netlog'))
             ELSE << >>

\* C6: for an address that has been resolved before, no step sends a geocoding
\* request, and whatever a step puts or leaves in the returned mapping for it is
\* the GeocodeResult stored the first time.
C6_ResolvedOnceServedFromCache ==
    [][\A a \in DOMAIN stored :
          /\ GeocodeEventsFor(NewEvents, a) = {}
          /\ a \in DOMAIN results' => results'[a] = stored[a]]_vars

\* an address resolved by an earlier call is served from the cache: a cache hit
\* in a call that sent no request for the address
C6_Witness ==
    \E i \in 1..Len(netlog) :
        /\ netlog[i].ev = "cached"
        /\ GeocodeEventsFor(netlog, netlog[i].address) = {}
        /\ netlog[i].address \in DOMAIN results
        /\ results[netlog[i].address] = stored[netlog[i].address]

\* the addresses the loop of geocode_addresses has handled, in order
RECURSIVE Handled(_)
Handled(log) ==
    IF log = << >> THEN << >>
    ELSE IF Head(log).ev \in { "cached", "geocode" }
         THEN << Head(log).address >> \o Handled(Tail(log))
         ELSE Handled(Tail(log))

\* the addresses found in the cache or answered with a candidate in this call
ResolvedInCall ==
    { netlog[i].address : i \in
        { k \in 1..Len(netlog) :
             \/ netlog[k].ev = "cached"
             \/ netlog[k].ev = "geocode" /\ netlog[k].answer = "candidates" } }

\* C7: when geocode_addresses returns (to its caller, or into optimize_route),
\* its loop has handled every address of the input list in order, and the keys
\* of the returned mapping are exactly the addresses found in the cache or
\* answered with at least one candidate.
C7_ReturnsExactlyTheResolved ==
    /\ (pc = "returned" /\ call = "geocode_addresses")
          => /\ outcome.kind = "geocoded"
             /\ Handled(netlog) = addresses
             /\ DOMAIN outcome.value = ResolvedInCall
    /\ Geocoded
          => /\ Handled(netlog) = addresses
             /\ DOMAIN results = ResolvedInCall

\* geocode_addresses returned after a request that raised and one that listed
\* nothing, each followed by an address that was resolved
C7_Witness ==
    /\ pc = "returned"
    /\ call = "geocode_addresses"
    /\ \E i, j \in 1..Len(netlog) :
          /\ i < j
          /\ netlog[i].ev = "geocode" /\ netlog[i].answer = "raised"
          /\ netlog[j].ev = "geocode" /\ netlog[j].answer = "candidates"
          /\ netlog[j].address \in DOMAIN outcome.value
          /\ netlog[i].address \notin DOMAIN outcome.value

\* the text of one stop in the URL: "lat,lng" or the '+'-encoded address
StopText(geocoded, address) == DropLast(UrlStop(geocoded, address))

HasUrlBase(url) == Len(url) >= Len(UrlBase) /\ SubSeq(url, 1, Len(UrlBase)) = UrlBase

\* the pieces of a text between its '/' characters
RECURSIVE SplitSlash(_)
SplitSlash(s) ==
    IF \A i \in 1..Len(s) : s[i] # "/" THEN << s >>
    ELSE LET p == CHOOSE i \in 1..Len(s) :
                      s[i] = "/" /\ \A j \in 1..(i - 1) : s[j] # "/"
         IN  << SubSeq(s, 1, p - 1) >> \o SplitSlash(SubSeq(s, p + 1, Len(s)))

\* the '/'-separated segments of the URL's path after '/dir/'
StopSegments(url) == SplitSlash(SubSeq(url, Len(UrlBase) + 1, Len(url)))

RoundTripUrl(url, geocoded, o, od) ==
    /\ HasUrlBase(url)
    /\ LET segs == StopSegments(url)
       IN  /\ Len(segs) = Len(od) + 2
           /\ segs[1] = StopText(geocoded, o)
           /\ segs[Len(segs)] = StopText(geocoded, o)
           /\ \A i \in 1..Len(od) : segs[i + 1] = StopText(geocoded, od[i])

\* C8: with N >= 1 optimized destinations, result leg j (counted from 1) starts
\* at the origin for j = 1 and at optimized destination j-1 otherwise, ends at
\* optimized destination j for j <= N and at the origin for j = N + 1, and has
\* the distance and duration of response leg j.
C8_LegsPairedByPosition ==
    (ResultReturned /\ Len(outcome.value.optimized_destinations) >= 1)
        => LET od == outcome.value.optimized_destinations
               wp == outcome.value.waypoints
           IN  \A j \in 1..Len(wp) :
                  /\ wp[j].start_location = IF j = 1 THEN origin ELSE od[j - 1]
                  /\ wp[j].end_location = IF j <= Len(od) THEN od[j] ELSE origin
                  /\ wp[j].distance_km = Km(Get(ResponseLegs[j].distanceMeters, 0))
                  /\ wp[j].duration_mins = DurationSeconds(ResponseLegs[j].duration) \div 60

\* origin A, destinations [B, C], order [1, 0], three legs: the result lists
\* [C, B], its first leg runs A -> C, its last one B -> A with the third leg's
\* 3.234 km and 3 minutes
C8_Witness ==
    /\ ResultReturned
    /\ destinations = << AddrB, AddrC >>
    /\ ResponseOrder = << 1, 0 >>
    /\ outcome.value.optimized_destinations = << AddrC, AddrB >>
    /\ Len(outcome.value.waypoints) = 3
    /\ outcome.value.waypoints[1].start_location = AddrA
    /\ outcome.value.waypoints[1].end_location = AddrC
    /\ outcome.value.waypoints[3].start_location = AddrB
    /\ outcome.value.waypoints[3].end_location = AddrA
    /\ outcome.value.waypoints[3].distance_km = [km |-> 3, thousandths |-> 234]
    /\ outcome.value.waypoints[3].duration_mins = 3

\* C9: the result has min(number of response legs, len(optimized_destinations)
\* + 1) legs.
C9_LegCount ==
    ResultReturned
        => Len(outcome.value.waypoints)
              = Min(Len(ResponseLegs), Len(outcome.value.optimized_destinations) + 1)

\* a response two legs short of the three stops' round trip, and one with a
\* leg too many
C9_Witness ==
    /\ ResultReturned
    /\ Len(outcome.value.optimized_destinations) = 2
    /\ \/ Len(ResponseLegs) = 1 /\ Len(outcome.value.waypoints) = 1
       \/ Len(ResponseLegs) = 4 /\ Len(outcome.value.waypoints) = 3

\* C10: the URL of a result with at most 9 destinations has exactly
\* len(optimized_destinations) + 2 stop segments after '/dir/': the origin, the
\* optimized destinations in order, the origin.
C10_UrlIsRoundTrip ==
    (RouteReturned /\ Len(outcome.value.optimized_destinations) <= MaxSingleUrlDests)
        => RoundTripUrl(outcome.value.google_maps_url, results, origin,
                        outcome.value.optimized_destinations)

\* _generate_map_url has returned a URL
UrlReturned == pc = "returned" /\ outcome.kind = "url"

\* C11: for more than 9 destinations the generator does not return the one URL
\* that runs origin, every destination in order, origin.
C11_OverNineNotOneUrl ==
    (UrlReturned /\ Len(destinations) > MaxSingleUrlDests)
        => ~RoundTripUrl(outcome.value, results, origin, destinations)

\* C12: in a call's log every geocoding request that is followed by another
\* one is followed at once by the delay, and no delay follows a cache hit.
C12_DelayBetweenRequests ==
    \A i \in 1..Len(netlog) :
        /\ (/\ netlog[i].ev = "geocode"
            /\ \E j \in (i + 1)..Len(netlog) : netlog[j].ev = "geocode")
              => netlog[i + 1].ev = "sleep"
        /\ (netlog[i].ev = "cached" /\ i < Len(netlog))
              => netlog[i + 1].ev # "sleep"

\* the response is no usable answer: a status other than 200, no 'routes' key or
\* an empty route list
NoRouteInResponse ==
    /\ response # None
    /\ \/ response[1].status_code # 200
       \/ response[1].routes = None
       \/ response[1].routes[1] = << >>

\* C13: when the route computation answered with a status other than 200, with
\* no 'routes' key or with an empty route list, the optimize_route call that is
\* over has raised an error, and not one from the response processor.
C13_NoRouteRaises ==
    (pc = "returned" /\ call = "optimize_route" /\ NoRouteInResponse)
        => /\ outcome.kind = "error"
           /\ outcome.error # "_process_route raised"

\* a status 500 whose body nevertheless holds a route with legs, after two
\* destinations were geocoded
C13_Witness ==
    /\ pc = "returned"
    /\ call = "optimize_route"
    /\ response # None
    /\ response[1].status_code = 500
    /\ response[1].routes # None
    /\ Len(ResponseLegs) = 3
    /\ Len(SentIntermediates) = 2
    /\ outcome.kind = "error"

IsPrefix(s, t) == Len(s) <= Len(t) /\ s = SubSeq(t, 1, Len(s))

\* C14: in an optimize_route call the addresses handled by the geocoding loop
\* are, in order, a prefix of [origin] + destinations; a route request is the
\* last entry of the call's log, so that no geocoding request and no second
\* route request follows it; it goes out only after the loop has handled every
\* address; and a call that is over with its origin resolved has sent exactly
\* one.
C14_GeocodeThenOneRouteRequest ==
    call = "optimize_route"
        => /\ IsPrefix(Handled(netlog), << origin >> \o destinations)
           /\ \A i \in RouteEvents :
                 /\ i = Len(netlog)
                 /\ Handled(netlog) = << origin >> \o destinations
           /\ (pc = "returned" /\ origin \in DOMAIN results)
                 => Cardinality(RouteEvents) = 1

\* a call that sent three geocoding requests, for the origin first and then the
\* two destinations, and then its route request
C14_Witness ==
    /\ pc = "returned"
    /\ call = "optimize_route"
    /\ outcome.kind = "result"
    /\ Len(destinations) = 2
    /\ \A a \in Range(addresses) : Cardinality(GeocodeEventsFor(netlog, a)) >= 1
    /\ GeocodeEventsFor(netlog, origin) = { 1 }
    /\ RouteEvents = { Len(netlog) }

\* the step sends a geocoding request for a that is answered with a candidate
ResolvedByStep(a) ==
    \E i \in GeocodeEventsFor(NewEvents, a) : NewEvents[i].answer = "candidates"

\* C15: no step of any call, failing or not, removes an address from the cache
\* or changes its GeocodeResult, and a step adds an address only together with
\* a geocoding request for it that was answered with a candidate.
C15_CacheOnlyGrows ==
    [][/\ \A a \in DOMAIN geocode_cache :
             /\ a \in DOMAIN geocode_cache'
             /\ geocode_cache'[a] = geocode_cache[a]
       /\ \A a \in DOMAIN geocode_cache' \ DOMAIN geocode_cache :
             ResolvedByStep(a)]_vars

\* an optimize_route call has failed on its origin and the cache still holds
\* what an earlier call stored and what this call added
C15_Witness ==
    /\ pc = "returned"
    /\ call = "optimize_route"
    /\ outcome.kind = "error"
    /\ origin \notin DOMAIN geocode_cache
    /\ \E a, b \in DOMAIN geocode_cache :
          /\ \E i \in 1..Len(netlog) : netlog[i].ev = "cached" /\ netlog[i].address = a
          /\ \E i \in GeocodeEventsFor(netlog, b) : netlog[i].answer = "candidates"

\* the legs of the result that end at the address
LegsEndingAt(waypoints, address) ==
    { j \in 1..Len(waypoints) : waypoints[j].end_location = address }

\* the table row of the i-th stop
ShownRow(i) == outcome.customers_in_order[i + 1]

\* C16: the row of each stop shows the distance and duration of the earliest
\* result leg that ends at the stop's address, "0.00 km" and "0 mins" when no leg
\* does; so the rows of two stops with the same address show the same values.
C16_StopShowsFirstMatchingLeg ==
    (pc = "shown")
        => LET od == outcome.result.optimized_destinations
               wp == outcome.result.waypoints
           IN  /\ Len(outcome.customers_in_order) = Len(od) + 2
               /\ \A i \in 1..Len(od) :
                     LET ends == LegsEndingAt(wp, od[i])
                     IN  /\ ShownRow(i).Address = od[i]
                         /\ ends = {} =>
                               /\ ShownRow(i).Distance = DistanceText(Km(0))
                               /\ ShownRow(i).Duration = DurationText(0)
                         /\ \A j \in ends :
                               (\A k \in ends : j <= k) =>
                                  /\ ShownRow(i).Distance = DistanceText(wp[j].distance_km)
                                  /\ ShownRow(i).Duration = DurationText(wp[j].duration_mins)
               /\ \A i, k \in 1..Len(od) :
                     od[i] = od[k] =>
                        /\ ShownRow(i).Distance = ShownRow(k).Distance
                        /\ ShownRow(i).Duration = ShownRow(k).Duration

\* destinations [B, B] with three legs: the second stop is shown the first
\* leg's 1.23 km and 1 mins, not the 2.23 km and 2 mins of the leg that reaches it
C16_Witness ==
    /\ pc = "shown"
    /\ outcome.result.optimized_destinations = << AddrB, AddrB >>
    /\ Len(outcome.result.waypoints) = 3
    /\ ShownRow(2).Distance = << "1", ".", "2", "3", " ", "k", "m" >>
    /\ ShownRow(2).Duration = << "1", " ", "m", "i", "n", "s" >>
    /\ DistanceText(outcome.result.waypoints[2].distance_km)
          = << "2", ".", "2", "3", " ", "k", "m" >>

\* destinations[idx] for the entries of order within 0..len(destinations)-1,
\* in order
RECURSIVE InRangeSelection(_, _)
InRangeSelection(order, dests) ==
    IF order = << >> THEN << >>
    ELSE IF 0 <= Head(order) /\ Head(order) < Len(dests)
         THEN << dests[Head(order) + 1] >> \o InRangeSelection(Tail(order), dests)
         ELSE InRangeSelection(Tail(order), dests)

\* C17: when the response lists an order, optimized_destinations is
\* destinations[idx] for the entries within 0..len(destinations)-1, in order;
\* an entry that is too large or negative selects nothing.
C17_OutOfRangeDiscarded ==
    (ResultReturned /\ ResponseOrder # << >> /\ destinations # << >>)
        => outcome.value.optimized_destinations
              = InRangeSelection(ResponseOrder, destinations)

====
